---- MODULE Spec2Model ----
(***************************************************************************)
(* Model of the hotel merger (src/src/hotel_services.py): the amenity      *)
(* normaliser, the field merge rules, the in-memory catalog of             *)
(* HotelsService and its query.                                            *)
(*                                                                         *)
(* Text whose characters the code inspects (amenity labels, addresses,     *)
(* the string form of a destination id) is a sequence of one-character     *)
(* strings; text that is only compared or measured (names, links,          *)
(* countries) is a TLA+ string.  A Python value that may be None is        *)
(* None == <<>> or Some(v) == <<v>>.                                       *)
(***************************************************************************)
EXTENDS Integers, Sequences, FiniteSets, TLC

VARIABLES hotels, order, folded, prev, found,
          locExisting, locNew, locMerged, locDone,
          ordBatch, ordShuffled, ordFirst, ordSecond,
          fetchPc, fetchResponses, all_supplier_data, fetchRaised,
          normText, normOnce, normTwice

catalogVars == <<hotels, order, folded, prev, found>>
locationVars == <<locExisting, locNew, locMerged, locDone>>
orderVars == <<ordBatch, ordShuffled, ordFirst, ordSecond>>
fetchVars == <<fetchPc, fetchResponses, all_supplier_data, fetchRaised>>
normalizeVars == <<normText, normOnce, normTwice>>
vars == <<hotels, order, folded, prev, found,
          locExisting, locNew, locMerged, locDone,
          ordBatch, ordShuffled, ordFirst, ordSecond,
          fetchPc, fetchResponses, all_supplier_data, fetchRaised,
          normText, normOnce, normTwice>>

(***************************************************************************)
(* Bounds of the model.                                                    *)
(***************************************************************************)
\* Records ingested over all merge_and_save calls of one run of the model.
MaxIngest == 3
\* Longest hotel_list handed to one merge_and_save call.
MaxBatch == 2
\* Most ", "-separated segments of an address given to merge_location.
MaxSegments == 2
\* Longest batch folded in two orders.
MaxShuffled == 2
\* Most records in the response of one supplier.
MaxRecords == 2
\* Longest text given to normalize_amenity on its own.
MaxText == 4

\* The suppliers registered with SupplierFactory: Acme, Paperflies, Patagonia.
NumSuppliers == 3

(***************************************************************************)
(* Python values.                                                          *)
(***************************************************************************)
None == <<>>

Some(v) == <<v>>

\* Truth value of an Optional[float]: None and 0.0 are falsy.
truthy_number(x) == x # None /\ x[1] # 0

\* `a or b` on Optional[float] operands.
or_number(a, b) == IF truthy_number(a) THEN a ELSE b

\* `a or b` on str operands: the empty string is falsy.
or_text(a, b) == IF a # "" THEN a ELSE b

Range(s) == {s[i] : i \in 1..Len(s)}

\* list(set(...)): the elements of S, each once, in an order the hash seed picks.
list_of_set(S) ==
    {s \in [1..Cardinality(S) -> S] : \A i, j \in 1..Cardinality(S) : i # j => s[i] # s[j]}

(***************************************************************************)
(* Characters.                                                             *)
(***************************************************************************)
UpperCase ==
    <<"A", "B", "C", "D", "E", "F", "G", "H", "I", "J", "K", "L", "M",
      "N", "O", "P", "Q", "R", "S", "T", "U", "V", "W", "X", "Y", "Z">>

LowerCase ==
    <<"a", "b", "c", "d", "e", "f", "g", "h", "i", "j", "k", "l", "m",
      "n", "o", "p", "q", "r", "s", "t", "u", "v", "w", "x", "y", "z">>

Whitespace == {" ", "\t", "\n"}

UpperCaseLetters == {UpperCase[i] : i \in 1..Len(UpperCase)}

LowerCaseLetters == {LowerCase[i] : i \in 1..Len(LowerCase)}

\* [A-Z]
is_upper(c) == c \in UpperCaseLetters

\* [a-z]
is_lower(c) == c \in LowerCaseLetters

lower_char(c) ==
    IF is_upper(c) THEN LowerCase[CHOOSE i \in 1..Len(UpperCase) : UpperCase[i] = c] ELSE c

\* str.lower()
lower(s) == [i \in 1..Len(s) |-> lower_char(s[i])]

RECURSIVE lstrip(_)
lstrip(s) == IF s # <<>> /\ s[1] \in Whitespace THEN lstrip(Tail(s)) ELSE s

RECURSIVE rstrip(_)
rstrip(s) ==
    IF s # <<>> /\ s[Len(s)] \in Whitespace THEN rstrip(SubSeq(s, 1, Len(s) - 1)) ELSE s

\* str.strip()
strip(s) == rstrip(lstrip(s))

\* re.sub(r'([a-z])([A-Z])', r'\1 \2', s): matches are found left to right and do
\* not overlap; a match takes the lowercase and the uppercase letter.
RECURSIVE camel_to_spaced(_)
camel_to_spaced(s) ==
    IF Len(s) < 2 THEN s
    ELSE IF is_lower(s[1]) /\ is_upper(s[2])
         THEN <<s[1], " ", s[2]>> \o camel_to_spaced(SubSeq(s, 3, Len(s)))
         ELSE <<s[1]>> \o camel_to_spaced(Tail(s))

\* str.split() without a separator: the maximal runs of non-whitespace.
RECURSIVE split_words(_, _)
split_words(s, word) ==
    IF s = <<>> THEN (IF word = <<>> THEN <<>> ELSE <<word>>)
    ELSE IF s[1] \in Whitespace
         THEN (IF word = <<>> THEN <<>> ELSE <<word>>) \o split_words(Tail(s), <<>>)
         ELSE split_words(Tail(s), Append(word, s[1]))

\* sep.join(parts)
RECURSIVE join(_, _)
join(sep, parts) ==
    IF parts = <<>> THEN <<>>
    ELSE IF Len(parts) = 1 THEN parts[1]
    ELSE parts[1] \o sep \o join(sep, Tail(parts))

wifi == <<"w", "i", "f", "i">>

\* HotelsService.normalize_amenity, without the rule for 'wifi'.
normalize_amenity_without_wifi_rule(amenity) ==
    join(<<" ">>, split_words(lower(camel_to_spaced(amenity)), <<>>))

\* HotelsService.normalize_amenity
normalize_amenity(amenity) ==
    IF lower(strip(amenity)) = wifi THEN wifi
    ELSE join(<<" ">>, split_words(lower(camel_to_spaced(amenity)), <<>>))

\* HotelsService.merge_amenities, with the new list dropped from the union.
merge_amenities_existing_only(existing, new) ==
    list_of_set({normalize_amenity(existing[i]) : i \in 1..Len(existing)})

\* HotelsService.merge_amenities: the possible results, one per order of the set.
merge_amenities(existing, new) ==
    list_of_set({normalize_amenity(existing[i]) : i \in 1..Len(existing)}
                \cup {normalize_amenity(new[i]) : i \in 1..Len(new)})

\* str.split(', ')
RECURSIVE split_comma_space(_, _)
split_comma_space(s, part) ==
    IF s = <<>> THEN <<part>>
    ELSE IF Len(s) >= 2 /\ s[1] = "," /\ s[2] = " "
         THEN <<part>> \o split_comma_space(SubSeq(s, 3, Len(s)), <<>>)
         ELSE split_comma_space(Tail(s), Append(part, s[1]))

\* The loop of merge_location over new_address_list.
RECURSIVE append_new_items(_, _, _)
append_new_items(address, items, existing_address_list) ==
    IF items = <<>> THEN address
    ELSE append_new_items(
             IF items[1] # <<>> /\ items[1] \notin Range(existing_address_list)
             THEN address \o <<",", " ">> \o items[1]
             ELSE address,
             Tail(items), existing_address_list)

\* The address of merge_location.
merge_address(existing_address, new_address) ==
    IF existing_address # <<>>
    THEN append_new_items(existing_address, split_comma_space(new_address, <<>>),
                          split_comma_space(existing_address, <<>>))
    ELSE new_address

\* The country of merge_location, with the existing country always kept.
merge_country_keep_existing(existing_country, new_country) == existing_country

\* The country of merge_location.
merge_country(existing_country, new_country) ==
    IF Len(existing_country) > Len(new_country) THEN existing_country ELSE new_country

\* HotelsService.merge_location, with the operands of each `or` exchanged.
merge_location_new_first(existing, new) ==
    [lat |-> or_number(new.lat, existing.lat),
     lng |-> or_number(new.lng, existing.lng),
     address |-> merge_address(existing.address, new.address),
     city |-> or_text(new.city, existing.city),
     country |-> merge_country(existing.country, new.country)]

\* HotelsService.merge_location
merge_location(existing, new) ==
    [lat |-> or_number(existing.lat, new.lat),
     lng |-> or_number(existing.lng, new.lng),
     address |-> merge_address(existing.address, new.address),
     city |-> or_text(existing.city, new.city),
     country |-> merge_country(existing.country, new.country)]

\* list({img.link: img for img in imgs}.values()), with the first image of a link kept.
images_by_link_first_wins(imgs) ==
    LET firsts == {i \in 1..Len(imgs) : \A j \in 1..(i - 1) : imgs[j].link # imgs[i].link}
        nth(k) == CHOOSE i \in firsts : Cardinality({j \in firsts : j < i}) = k - 1
    IN  [k \in 1..Cardinality(firsts) |-> imgs[nth(k)]]

\* list({img.link: img for img in imgs}.values()): a dict keeps a key at the place
\* of its first insertion and the value of its last.
images_by_link(imgs) ==
    LET firsts == {i \in 1..Len(imgs) : \A j \in 1..(i - 1) : imgs[j].link # imgs[i].link}
        nth(k) == CHOOSE i \in firsts : Cardinality({j \in firsts : j < i}) = k - 1
        last(link) == CHOOSE i \in 1..Len(imgs) :
                          /\ imgs[i].link = link
                          /\ \A j \in (i + 1)..Len(imgs) : imgs[j].link # link
    IN  [k \in 1..Cardinality(firsts) |-> imgs[last(imgs[nth(k)].link)]]

\* The else branch of merge_and_save: the possible states of the existing entry
\* after the incoming hotel is merged into it.
merge_existing(existing, hotel) ==
    {[existing EXCEPT
        !.amenities = [general |-> g, room |-> r],
        !.description = or_text(existing.description, hotel.description),
        !.location = merge_location(existing.location, hotel.location),
        !.images = [rooms |-> images_by_link(existing.images.rooms \o hotel.images.rooms),
                    site |-> images_by_link(existing.images.site \o hotel.images.site),
                    amenities |-> images_by_link(existing.images.amenities
                                                 \o hotel.images.amenities)],
        !.booking_conditions = b] :
        g \in merge_amenities(existing.amenities.general, hotel.amenities.general),
        r \in merge_amenities(existing.amenities.room, hotel.amenities.room),
        b \in list_of_set(Range(existing.booking_conditions)
                          \cup Range(hotel.booking_conditions))}

\* The catalog: hotels and order are self.hotels (a dict keeps insertion order);
\* folded and prev are history, folded[id] the records ingested under id in
\* order, prev[id] the entry of id as it was before the latest merge into it.
Catalog(h, o, f, p) == [hotels |-> h, order |-> o, folded |-> f, prev |-> p]

EmptyCatalog == Catalog(<<>>, <<>>, <<>>, <<>>)

first_seen(cat, hotel) ==
    Catalog(cat.hotels @@ (hotel.id :> hotel),
            Append(cat.order, hotel.id),
            cat.folded @@ (hotel.id :> <<hotel>>),
            cat.prev)

merged_into(cat, hotel, merged) ==
    Catalog([cat.hotels EXCEPT ![hotel.id] = merged],
            cat.order,
            [cat.folded EXCEPT ![hotel.id] = Append(@, hotel)],
            (hotel.id :> cat.hotels[hotel.id]) @@ cat.prev)

\* A hotel with its amenity lists normalised and deduplicated.
with_normalized_amenities(hotel) ==
    [hotel EXCEPT
        !.amenities = [general |-> CHOOSE g \in merge_amenities(hotel.amenities.general, <<>>) : TRUE,
                       room |-> CHOOSE r \in merge_amenities(hotel.amenities.room, <<>>) : TRUE]]

\* The body of merge_and_save's loop, with a first-seen hotel normalised on entry.
upsert_normalizing(cat, hotel) ==
    IF hotel.id \notin DOMAIN cat.hotels
    THEN {Catalog(cat.hotels @@ (hotel.id :> with_normalized_amenities(hotel)),
                  Append(cat.order, hotel.id),
                  cat.folded @@ (hotel.id :> <<hotel>>),
                  cat.prev)}
    ELSE {merged_into(cat, hotel, m) : m \in merge_existing(cat.hotels[hotel.id], hotel)}

\* The body of merge_and_save's loop, with the name merged like the description.
upsert_merging_name(cat, hotel) ==
    IF hotel.id \notin DOMAIN cat.hotels
    THEN {first_seen(cat, hotel)}
    ELSE {merged_into(cat, hotel, [m EXCEPT !.name = or_text(m.name, hotel.name)]) :
             m \in merge_existing(cat.hotels[hotel.id], hotel)}

\* The body of merge_and_save's loop: the possible catalogs after one hotel.
upsert(cat, hotel) ==
    IF hotel.id \notin DOMAIN cat.hotels
    THEN {first_seen(cat, hotel)}
    ELSE {merged_into(cat, hotel, m) : m \in merge_existing(cat.hotels[hotel.id], hotel)}

\* HotelsService.merge_and_save: the possible catalogs after the whole list.
RECURSIVE merge_and_save(_, _)
merge_and_save(cat, hotel_list) ==
    IF hotel_list = <<>> THEN {cat}
    ELSE UNION {merge_and_save(c, Tail(hotel_list)) : c \in upsert(cat, hotel_list[1])}

Digits == <<"0", "1", "2", "3", "4", "5", "6", "7", "8", "9">>

RECURSIVE str_natural(_)
str_natural(n) ==
    IF n < 10 THEN <<Digits[n + 1]>>
    ELSE Append(str_natural(n \div 10), Digits[(n % 10) + 1])

\* str(n) of an int
str(n) == IF n < 0 THEN <<"-">> \o str_natural(-n) ELSE str_natural(n)

\* `not x` of an Optional[List]: None and [] are falsy.
not_list(x) == x = None \/ x[1] = <<>>

\* list(self.hotels.values())
hotel_values(cat) == [i \in 1..Len(cat.order) |-> cat.hotels[cat.order[i]]]

\* HotelsService.find, with `or` between the two filters in place of `and`.
find_or(cat, hotel_ids, destination_ids) ==
    IF not_list(hotel_ids) \/ not_list(destination_ids) THEN hotel_values(cat)
    ELSE SelectSeq(hotel_values(cat),
                   LAMBDA hotel : \/ hotel.id \in Range(hotel_ids[1])
                                  \/ str(hotel.destination_id) \in Range(destination_ids[1]))

\* HotelsService.find
find(cat, hotel_ids, destination_ids) ==
    IF not_list(hotel_ids) \/ not_list(destination_ids) THEN hotel_values(cat)
    ELSE SelectSeq(hotel_values(cat),
                   LAMBDA hotel : /\ hotel.id \in Range(hotel_ids[1])
                                  /\ str(hotel.destination_id) \in Range(destination_ids[1]))

(***************************************************************************)
(* The records the suppliers deliver.  A record is one of four payloads,   *)
(* under one of two ids.                                                   *)
(***************************************************************************)
Ids == {"h1", "h2"}

destination_of(id) == IF id = "h1" THEN 5 ELSE 12

Image(link, description) == [link |-> link, description |-> description]

MainSt == <<"1", "2", "3", " ", "M", "a", "i", "n", " ", "S", "t">>

Suite5 == <<"S", "u", "i", "t", "e", " ", "5">>

LabelPool == <<"P", "o", "o", "l">>

LabelPoolLower == <<"p", "o", "o", "l">>

LabelWIFI == <<"W", "I", "F", "I">>

LabelWiFi == <<"W", "i", "F", "i">>

LabelWifiPadded == <<" ", "w", "i", "f", "i", " ">>

LabelBusinessCenter ==
    <<"B", "u", "s", "i", "n", "e", "s", "s", "C", "e", "n", "t", "e", "r">>

Payloads == 1..4

Hotel(id, p) ==
    [id |-> id,
     destination_id |-> destination_of(id),
     name |-> <<"", "n2", "n3", "">>[p],
     location |->
        [lat |-> <<None, Some(1), Some(2), Some(0)>>[p],
         lng |-> <<Some(0), Some(1), None, None>>[p],
         address |-> <<MainSt, MainSt \o <<",", " ">> \o Suite5,
                       Suite5 \o <<",", " ">> \o Suite5, <<>> >>[p],
         city |-> <<"", "c2", "c3", "">>[p],
         country |-> <<"US", "United States", "UK", "">>[p]],
     description |-> <<"", "d2", "d3", "">>[p],
     amenities |->
        [general |-> << <<LabelPool, LabelWIFI>>, <<LabelPoolLower, LabelBusinessCenter>>,
                        <<LabelPool, LabelPoolLower>>, <<>> >>[p],
         room |-> << <<>>, <<LabelWiFi>>, <<LabelWifiPadded, LabelWIFI>>, <<>> >>[p]],
     images |->
        [rooms |-> << <<Image("x", "a")>>, <<Image("x", "b"), Image("y", "c")>>,
                      <<Image("y", "d")>>, <<>> >>[p],
         site |-> << <<>>, <<Image("s", "e")>>, <<Image("s", "e")>>, <<>> >>[p],
         amenities |-> << <<Image("x", "a"), Image("x", "c")>>, <<>>,
                          <<Image("x", "f")>>, <<>> >>[p]],
     booking_conditions |-> << <<>>, <<"b1", "b1">>, <<"b1">>, <<>> >>[p]]

HotelPool == {Hotel(id, p) : id \in Ids, p \in Payloads}

RECURSIVE ListsUpTo(_, _)
ListsUpTo(S, n) ==
    IF n = 0 THEN {<<>>}
    ELSE LET shorter == ListsUpTo(S, n - 1)
         IN  shorter \cup {Append(l, x) : l \in {m \in shorter : Len(m) = n - 1}, x \in S}

\* The arguments given to find: None, the empty list, and lists of ids.
HotelIdArgs == {None, Some(<<>>), Some(<<"h1">>), Some(<<"h1", "h2">>)}

DestinationIdArgs ==
    {None, Some(<<>>), Some(<< <<"1", "2">>, <<"7">> >>),
     Some(<< <<"5">>, <<"1">>, <<"2">> >>)}

(***************************************************************************)
(* The locations given to merge_location on its own.                       *)
(***************************************************************************)
Segments == {<<>>, <<"A">>, <<"B">>}

AddressPool == {join(<<",", " ">>, l) : l \in ListsUpTo(Segments, MaxSegments)}

CountryPool == {"", "US", "UK", "United States"}

LocationPool ==
    {[lat |-> s[1], lng |-> s[2], address |-> a, city |-> s[3], country |-> c] :
        s \in {<<None, Some(0), "">>, <<Some(1), Some(2), "c1">>},
        a \in AddressPool, c \in CountryPool}

EmptyLocation == [lat |-> None, lng |-> None, address |-> <<>>, city |-> "", country |-> ""]

(***************************************************************************)
(* The catalog: HotelsService under merge_and_save and find.               *)
(***************************************************************************)
catalog == Catalog(hotels, order, folded, prev)

\* The number of records ingested so far.
ingested == Cardinality(UNION {{id} \X (1..Len(folded[id])) : id \in DOMAIN folded})

\* The state of each part of the model before it has run.
CatalogIdle ==
    /\ hotels = <<>>
    /\ order = <<>>
    /\ folded = <<>>
    /\ prev = <<>>
    /\ found = None

LocationIdle ==
    /\ locExisting = EmptyLocation
    /\ locNew = EmptyLocation
    /\ locMerged = EmptyLocation
    /\ locDone = FALSE

OrderIdle ==
    /\ ordBatch = <<>>
    /\ ordShuffled = <<>>
    /\ ordFirst = None
    /\ ordSecond = None

FetchIdle ==
    /\ fetchPc = "idle"
    /\ fetchResponses = <<>>
    /\ all_supplier_data = <<>>
    /\ fetchRaised = {}

NormalizeIdle ==
    /\ normText = <<>>
    /\ normOnce = None
    /\ normTwice = None

Init ==
    /\ CatalogIdle
    /\ LocationIdle
    /\ OrderIdle
    /\ FetchIdle
    /\ NormalizeIdle

\* svc.merge_and_save(hotel_list); the catalog is queried after the ingestion, as
\* in fetch_hotels.
MergeAndSave(hotel_list) ==
    /\ found = None
    /\ hotel_list # <<>>
    /\ ingested + Len(hotel_list) <= MaxIngest
    /\ \E cat \in merge_and_save(catalog, hotel_list) :
          /\ hotels' = cat.hotels
          /\ order' = cat.order
          /\ folded' = cat.folded
          /\ prev' = cat.prev
    /\ UNCHANGED found
    /\ UNCHANGED <<locationVars, orderVars, fetchVars, normalizeVars>>

\* svc.find(hotel_ids, destination_ids); found is the call and what it returned.
Find(hotel_ids, destination_ids) ==
    /\ found = None
    /\ found' = Some([hotel_ids |-> hotel_ids, destination_ids |-> destination_ids,
                      result |-> find(catalog, hotel_ids, destination_ids)])
    /\ UNCHANGED <<hotels, order, folded, prev>>
    /\ UNCHANGED <<locationVars, orderVars, fetchVars, normalizeVars>>

Next ==
    \/ \E hotel_list \in ListsUpTo(HotelPool, MaxBatch) : MergeAndSave(hotel_list)
    \/ \E hotel_ids \in HotelIdArgs, destination_ids \in DestinationIdArgs :
          Find(hotel_ids, destination_ids)

Spec == Init /\ [][Next]_vars

(***************************************************************************)
(* merge_location on its own, applied to every pair of the pool.           *)
(***************************************************************************)
InitLocation ==
    /\ CatalogIdle
    /\ OrderIdle
    /\ FetchIdle
    /\ NormalizeIdle
    /\ locExisting \in LocationPool
    /\ locNew \in LocationPool
    /\ locMerged = EmptyLocation
    /\ locDone = FALSE

MergeLocation ==
    /\ ~locDone
    /\ locMerged' = merge_location(locExisting, locNew)
    /\ locDone' = TRUE
    /\ UNCHANGED <<locExisting, locNew>>
    /\ UNCHANGED <<catalogVars, orderVars, fetchVars, normalizeVars>>

NextLocation == MergeLocation

SpecLocation == InitLocation /\ [][NextLocation]_vars

(***************************************************************************)
(* One batch of records folded into an empty catalog twice: as delivered,  *)
(* and in another order (the suppliers, or their records, permuted).       *)
(***************************************************************************)
\* The orders in which the records of batch can arrive.
Permutations_of(batch) ==
    {[i \in 1..Len(batch) |-> batch[p[i]]] :
        p \in {q \in [1..Len(batch) -> 1..Len(batch)] :
                  \A i, j \in 1..Len(batch) : i # j => q[i] # q[j]}}

InitOrder ==
    /\ CatalogIdle
    /\ LocationIdle
    /\ FetchIdle
    /\ NormalizeIdle
    /\ ordBatch \in ListsUpTo(HotelPool, MaxShuffled) \ {<<>>}
    /\ ordShuffled = <<>>
    /\ ordFirst = None
    /\ ordSecond = None

\* svc = HotelsService(); svc.merge_and_save(all_supplier_data)
FoldAsDelivered ==
    /\ ordFirst = None
    /\ \E cat \in merge_and_save(EmptyCatalog, ordBatch) : ordFirst' = Some(cat)
    /\ UNCHANGED <<ordBatch, ordShuffled, ordSecond>>
    /\ UNCHANGED <<catalogVars, locationVars, fetchVars, normalizeVars>>

\* The same, with the records arriving in the order shuffled.
FoldShuffled(shuffled) ==
    /\ ordFirst # None
    /\ ordSecond = None
    /\ ordShuffled' = shuffled
    /\ \E cat \in merge_and_save(EmptyCatalog, shuffled) : ordSecond' = Some(cat)
    /\ UNCHANGED <<ordBatch, ordFirst>>
    /\ UNCHANGED <<catalogVars, locationVars, fetchVars, normalizeVars>>

NextOrder ==
    \/ FoldAsDelivered
    \/ \E shuffled \in Permutations_of(ordBatch) : FoldShuffled(shuffled)

SpecOrder == InitOrder /\ [][NextOrder]_vars

(***************************************************************************)
(* normalize_amenity on its own, applied to every text of the alphabet up  *)
(* to MaxText characters, and again to its own result.                     *)
(***************************************************************************)
Alphabet == {"w", "i", "f", "W", "I", "F", " "}

InitNormalize ==
    /\ CatalogIdle
    /\ LocationIdle
    /\ OrderIdle
    /\ FetchIdle
    /\ normText \in ListsUpTo(Alphabet, MaxText)
    /\ normOnce = None
    /\ normTwice = None

NormalizeOnce ==
    /\ normOnce = None
    /\ normOnce' = Some(normalize_amenity(normText))
    /\ UNCHANGED <<normText, normTwice>>
    /\ UNCHANGED <<catalogVars, locationVars, orderVars, fetchVars>>

NormalizeAgain ==
    /\ normOnce # None
    /\ normTwice = None
    /\ normTwice' = Some(normalize_amenity(normOnce[1]))
    /\ UNCHANGED <<normText, normOnce>>
    /\ UNCHANGED <<catalogVars, locationVars, orderVars, fetchVars>>

NextNormalize == NormalizeOnce \/ NormalizeAgain

SpecNormalize == InitNormalize /\ [][NextNormalize]_vars

(***************************************************************************)
(* fetch_hotels: every supplier is fetched in turn, and what the fetches   *)
(* returned is merged into a new catalog.  A response is what the          *)
(* supplier's endpoint does when asked: the request fails, the body is no  *)
(* JSON, or it is a list of records; parse raises on a record that lacks   *)
(* a mandatory key.                                                        *)
(***************************************************************************)
Dto(valid, hotel) == [valid |-> valid, hotel |-> hotel]

DtoPool == {Dto(TRUE, Hotel("h1", 3)), Dto(TRUE, Hotel("h1", 4)), Dto(FALSE, Hotel("h2", 1))}

Responses ==
    {[status |-> "request_exception", data |-> <<>>], [status |-> "bad_json", data |-> <<>>]}
    \cup {[status |-> "ok", data |-> d] : d \in ListsUpTo(DtoPool, MaxRecords)}

Returned(value) == [exception |-> "none", value |-> value]

\* The exception the try block of BaseSupplier.fetch ends with, "none" if none:
\* requests.get and raise_for_status raise a RequestException, response.json() a
\* ValueError, and [self.parse(dto) for dto in data] what the first failing parse
\* raises, a KeyError.
raised_in_try(response) ==
    IF response.status = "request_exception" THEN "RequestException"
    ELSE IF response.status = "bad_json" THEN "ValueError"
    ELSE IF \E i \in 1..Len(response.data) : ~response.data[i].valid THEN "KeyError"
    ELSE "none"

\* BaseSupplier.fetch, with a record that fails to parse left out of the list.
fetch_skipping_bad_records(response) ==
    IF response.status # "ok" THEN Returned(<<>>)
    ELSE LET good == SelectSeq(response.data, LAMBDA dto : dto.valid)
         IN  Returned([i \in 1..Len(good) |-> good[i].hotel])

\* BaseSupplier.fetch.  No exception leaves the body, so the retry decorator,
\* which calls again on a RequestException, never does.
fetch(response) ==
    LET exception == raised_in_try(response)
    IN  IF exception = "none"
        THEN Returned([i \in 1..Len(response.data) |-> response.data[i].hotel])
        ELSE IF exception = "RequestException" THEN Returned(<<>>)
        ELSE Returned(<<>>)

\* `except Exception` in fetch_hotels: every exception of the model is one.
caught_in_fetch_hotels(exception) ==
    exception \in {"RequestException", "ValueError", "KeyError"}

InitFetch ==
    /\ CatalogIdle
    /\ LocationIdle
    /\ OrderIdle
    /\ NormalizeIdle
    /\ fetchPc = "fetch"
    /\ fetchResponses = <<>>
    /\ all_supplier_data = <<>>
    /\ fetchRaised = {}

\* One turn of the loop over the suppliers: the try around supplier.fetch() logs
\* what fetch raises and goes on, and an exception it does not catch ends the run;
\* fetchRaised is history, the suppliers whose fetch raised.
FetchSupplier(response) ==
    /\ fetchPc = "fetch"
    /\ Len(fetchResponses) < NumSuppliers
    /\ fetchResponses' = Append(fetchResponses, response)
    /\ LET outcome == fetch(response)
       IN  IF outcome.exception = "none"
           THEN /\ all_supplier_data' = all_supplier_data \o outcome.value
                /\ UNCHANGED fetchRaised
                /\ UNCHANGED fetchPc
           ELSE /\ fetchRaised' = fetchRaised \cup {Len(fetchResponses) + 1}
                /\ UNCHANGED all_supplier_data
                /\ fetchPc' = IF caught_in_fetch_hotels(outcome.exception)
                              THEN "fetch" ELSE "raised"
    /\ UNCHANGED <<catalogVars, locationVars, orderVars, normalizeVars>>

\* svc = HotelsService(); svc.merge_and_save(all_supplier_data)
MergeFetched ==
    /\ fetchPc = "fetch"
    /\ Len(fetchResponses) = NumSuppliers
    /\ \E cat \in merge_and_save(EmptyCatalog, all_supplier_data) :
          /\ hotels' = cat.hotels
          /\ order' = cat.order
          /\ folded' = cat.folded
          /\ prev' = cat.prev
    /\ fetchPc' = "done"
    /\ UNCHANGED <<found, fetchResponses, all_supplier_data, fetchRaised>>
    /\ UNCHANGED <<locationVars, orderVars, normalizeVars>>

NextFetch ==
    \/ \E response \in Responses : FetchSupplier(response)
    \/ MergeFetched

SpecFetch == InitFetch /\ [][NextFetch]_vars

(***************************************************************************)
(* Properties.                                                             *)
(***************************************************************************)
\* The canonical keys of an amenity list.
keys(amenities) == {normalize_amenity(amenities[i]) : i \in 1..Len(amenities)}

no_two_same_key(amenities) ==
    \A i, j \in 1..Len(amenities) :
        i # j => normalize_amenity(amenities[i]) # normalize_amenity(amenities[j])

links(imgs) == {imgs[i].link : i \in 1..Len(imgs)}

latest(id) == folded[id][Len(folded[id])]

\* The first value of vs that is present, or the last value when none is.
first_present(vs, present(_)) ==
    IF \E i \in 1..Len(vs) : present(vs[i])
    THEN vs[CHOOSE i \in 1..Len(vs) : present(vs[i]) /\ \A j \in 1..(i - 1) : ~present(vs[j])]
    ELSE vs[Len(vs)]

present_text(s) == s # ""

KeyPool == <<"p", "o", "o", "l">>

KeyBusinessCenter ==
    <<"b", "u", "s", "i", "n", "e", "s", "s", " ", "c", "e", "n", "t", "e", "r">>

C2_AmenityKeysAreTheUnion ==
    \A id \in DOMAIN hotels :
        /\ keys(hotels[id].amenities.general)
              = UNION {keys(folded[id][i].amenities.general) : i \in 1..Len(folded[id])}
        /\ keys(hotels[id].amenities.room)
              = UNION {keys(folded[id][i].amenities.room) : i \in 1..Len(folded[id])}

\* C2 witness: ["pool","BusinessCenter"], ["Pool","WIFI"] and the first again were
\* folded under one id, and its keys are pool, wifi and business center.
C2_Witness ==
    \E id \in DOMAIN hotels :
        /\ Len(folded[id]) = 3
        /\ folded[id][1].amenities.general = <<LabelPoolLower, LabelBusinessCenter>>
        /\ folded[id][2].amenities.general = <<LabelPool, LabelWIFI>>
        /\ folded[id][3] = folded[id][1]
        /\ keys(hotels[id].amenities.general) = {KeyPool, wifi, KeyBusinessCenter}

merged_bucket_ok(existing, incoming, result) ==
    /\ \A i, j \in 1..Len(result) : i # j => result[i].link # result[j].link
    /\ links(result) = links(existing) \cup links(incoming)
    /\ \A i \in 1..Len(result) :
          IF result[i].link \in links(incoming)
          THEN result[i] \in Range(incoming)
          ELSE result[i] \in Range(existing)

\* C3: after a record is merged into an existing entry, each image bucket holds
\* exactly one image per link of the existing or the incoming bucket, and the
\* image of a link the incoming bucket has is an incoming one.
C3_ImagesLastWriteWinsByLink ==
    \A id \in DOMAIN prev :
        /\ merged_bucket_ok(prev[id].images.rooms, latest(id).images.rooms,
                            hotels[id].images.rooms)
        /\ merged_bucket_ok(prev[id].images.site, latest(id).images.site,
                            hotels[id].images.site)
        /\ merged_bucket_ok(prev[id].images.amenities, latest(id).images.amenities,
                            hotels[id].images.amenities)

\* C3 witness: link "x" was in the existing rooms bucket with description "a" and
\* in the incoming one with "b", and the entry now holds "x" with "b".
C3_Witness ==
    \E id \in DOMAIN prev :
        /\ Image("x", "a") \in Range(prev[id].images.rooms)
        /\ Image("x", "b") \in Range(latest(id).images.rooms)
        /\ Image("x", "b") \in Range(hotels[id].images.rooms)
        /\ Len(hotels[id].images.rooms) = 2

\* C4: find returns all stored hotels, one per distinct id ingested, when either
\* filter is empty or absent, and otherwise exactly the stored hotels whose id is
\* in hotel_ids and whose destination_id in string form is in destination_ids.
C4_FindIsTheReferenceQuery ==
    found # None =>
        LET q == found[1]
            stored == {hotels[id] : id \in DOMAIN hotels}
            ingested_ids == UNION {{folded[id][i].id : i \in 1..Len(folded[id])} :
                                      id \in DOMAIN folded}
            unfiltered == \/ q.hotel_ids \in {None, Some(<<>>)}
                          \/ q.destination_ids \in {None, Some(<<>>)}
            expected ==
                IF unfiltered THEN stored
                ELSE {h \in stored : /\ \E i \in 1..Len(q.hotel_ids[1]) :
                                            q.hotel_ids[1][i] = h.id
                                     /\ \E i \in 1..Len(q.destination_ids[1]) :
                                            q.destination_ids[1][i] = str(h.destination_id)}
        IN  /\ Range(q.result) = expected
            /\ Len(q.result) = Cardinality(expected)
            /\ unfiltered => Len(q.result) = Cardinality(ingested_ids)

\* C4 witness: both filters were given, two hotels are stored, and find returned
\* the one of them that matches both filters.
C4_Witness ==
    /\ found # None
    /\ found[1].hotel_ids = Some(<<"h1", "h2">>)
    /\ found[1].destination_ids = Some(<< <<"1", "2">>, <<"7">> >>)
    /\ Len(order) = 2
    /\ Len(found[1].result) = 1
    /\ found[1].result[1].id = "h2"

\* C5: a hotel whose id was not yet in the catalog is stored as it is, equal to
\* the record in every field.
C5_FirstSeenStoredUnchanged ==
    \A id \in DOMAIN hotels : Len(folded[id]) = 1 => hotels[id] = folded[id][1]

\* C5 witness: a hotel ingested once is stored with two general amenities of the
\* same canonical key.
C5_Witness ==
    \E id \in DOMAIN hotels :
        /\ Len(folded[id]) = 1
        /\ hotels[id].amenities.general = <<LabelPool, LabelPoolLower>>

\* C6: the name of an entry is the name of the first record seen under its id,
\* whatever was folded into it afterwards.
C6_NameIsTheFirstSeen ==
    \A id \in DOMAIN hotels : hotels[id].name = folded[id][1].name

\* C6 witness: the first record had an empty name, a later one a name, and the
\* entry's name is empty.
C6_Witness ==
    \E id \in DOMAIN hotels :
        /\ folded[id][1].name = ""
        /\ \E i \in 2..Len(folded[id]) : folded[id][i].name # ""
        /\ hotels[id].name = ""

\* C7: a merge keeps the existing description, lat, lng and city when present and
\* else adopts the incoming one, so each holds the first present value of the
\* records folded under the id, or the last record's value when none is present.
C7_FirstPresentValueWins ==
    /\ \A id \in DOMAIN prev :
          /\ hotels[id].description
                = (IF prev[id].description # "" THEN prev[id].description
                   ELSE latest(id).description)
          /\ hotels[id].location.lat
                = (IF truthy_number(prev[id].location.lat) THEN prev[id].location.lat
                   ELSE latest(id).location.lat)
          /\ hotels[id].location.lng
                = (IF truthy_number(prev[id].location.lng) THEN prev[id].location.lng
                   ELSE latest(id).location.lng)
          /\ hotels[id].location.city
                = (IF prev[id].location.city # "" THEN prev[id].location.city
                   ELSE latest(id).location.city)
    /\ \A id \in DOMAIN hotels :
          LET n == Len(folded[id])
          IN  /\ hotels[id].description
                    = first_present([i \in 1..n |-> folded[id][i].description], present_text)
              /\ hotels[id].location.lat
                    = first_present([i \in 1..n |-> folded[id][i].location.lat], truthy_number)
              /\ hotels[id].location.lng
                    = first_present([i \in 1..n |-> folded[id][i].location.lng], truthy_number)
              /\ hotels[id].location.city
                    = first_present([i \in 1..n |-> folded[id][i].location.city], present_text)

\* C7 witness: the first record had no lat, the second lat 0, the third lat 1, and
\* the entry holds lat 1 and the third record's description.
C7_Witness ==
    \E id \in DOMAIN hotels :
        /\ Len(folded[id]) = 3
        /\ folded[id][1].location.lat = None
        /\ folded[id][2].location.lat = Some(0)
        /\ folded[id][3].location.lat = Some(1)
        /\ hotels[id].location.lat = Some(1)
        /\ hotels[id].description = folded[id][3].description
        /\ hotels[id].description # ""

\* C8: when the existing and the incoming country differ in length, merge_location
\* returns the strictly longer one, whichever side it comes from.
C8_LongerCountryWins ==
    (locDone /\ Len(locExisting.country) # Len(locNew.country)) =>
        /\ locMerged.country \in {locExisting.country, locNew.country}
        /\ Len(locMerged.country) > Len(locExisting.country)
              \/ Len(locMerged.country) > Len(locNew.country)

\* C8 witness: "United States" merged with an incoming "US" gave "United States".
C8_Witness ==
    /\ locDone
    /\ locExisting.country = "United States"
    /\ locNew.country = "US"
    /\ locMerged.country = "United States"

\* C9: when the existing and the incoming country differ and have the same
\* length, merge_location keeps the existing country.
C9_TieKeepsExistingCountry ==
    (/\ locDone
     /\ Len(locExisting.country) = Len(locNew.country)
     /\ locExisting.country # locNew.country)
        => locMerged.country = locExisting.country

segments(address) == split_comma_space(address, <<>>)

no_repeated_segment(address) ==
    \A i, j \in 1..Len(segments(address)) :
        i # j => segments(address)[i] # segments(address)[j]

\* C10: with a non-empty existing address the merged address is the existing one
\* followed by each segment of the incoming address that is not already present,
\* so no segment occurs twice in it when none does in the existing address; with
\* an empty existing address it is the incoming address.
C10_AddressHasNoDuplicateSegment ==
    locDone =>
        IF locExisting.address = <<>> THEN locMerged.address = locNew.address
        ELSE /\ \E appended \in SUBSET (1..Len(segments(locNew.address))) :
                   /\ \A i \in 1..Len(segments(locNew.address)) :
                         i \in appended <=>
                            /\ segments(locNew.address)[i] # <<>>
                            /\ segments(locNew.address)[i]
                                  \notin Range(segments(locExisting.address))
                   /\ Range(segments(locMerged.address))
                         = Range(segments(locExisting.address))
                           \cup {segments(locNew.address)[i] : i \in appended}
             /\ SubSeq(locMerged.address, 1, Len(locExisting.address)) = locExisting.address
             /\ no_repeated_segment(locExisting.address)
                   => no_repeated_segment(locMerged.address)

\* The two hotels agree in every field, their lists compared as sets.
same_hotel_as_sets(a, b) ==
    /\ a.id = b.id
    /\ a.destination_id = b.destination_id
    /\ a.name = b.name
    /\ a.description = b.description
    /\ a.location = b.location
    /\ Range(a.amenities.general) = Range(b.amenities.general)
    /\ Range(a.amenities.room) = Range(b.amenities.room)
    /\ Range(a.images.rooms) = Range(b.images.rooms)
    /\ Range(a.images.site) = Range(b.images.site)
    /\ Range(a.images.amenities) = Range(b.images.amenities)
    /\ Range(a.booking_conditions) = Range(b.booking_conditions)

\* C11 as stated: folding a batch into an empty catalog in two orders gives, for
\* every id, the same merged hotel, list-valued fields compared as sets.
C11_OrderDoesNotAffectMerge ==
    ordSecond # None =>
        /\ DOMAIN ordFirst[1].hotels = DOMAIN ordSecond[1].hotels
        /\ \A id \in DOMAIN ordFirst[1].hotels :
              same_hotel_as_sets(ordFirst[1].hotels[id], ordSecond[1].hotels[id])

\* C11 as amended: folding a batch into an empty catalog in two orders gives the
\* same ids and, for every id, the same canonical amenity keys, the same links in
\* each image bucket and the same set of booking conditions.
C11_OrderDoesNotAffectUnions ==
    ordSecond # None =>
        /\ DOMAIN ordFirst[1].hotels = DOMAIN ordSecond[1].hotels
        /\ \A id \in DOMAIN ordFirst[1].hotels :
              LET a == ordFirst[1].hotels[id]
                  b == ordSecond[1].hotels[id]
              IN  /\ keys(a.amenities.general) = keys(b.amenities.general)
                  /\ keys(a.amenities.room) = keys(b.amenities.room)
                  /\ links(a.images.rooms) = links(b.images.rooms)
                  /\ links(a.images.site) = links(b.images.site)
                  /\ links(a.images.amenities) = links(b.images.amenities)
                  /\ Range(a.booking_conditions) = Range(b.booking_conditions)

\* C11 witness: two records of one id were folded in both orders; the two
\* entries have the keys pool, wifi and business center, and different names.
C11_Witness ==
    /\ ordSecond # None
    /\ Len(ordBatch) = 2
    /\ ordBatch[1].id = ordBatch[2].id
    /\ ordShuffled = <<ordBatch[2], ordBatch[1]>>
    /\ ordShuffled # ordBatch
    /\ LET a == ordFirst[1].hotels[ordBatch[1].id]
           b == ordSecond[1].hotels[ordBatch[1].id]
       IN  /\ keys(a.amenities.general) = {KeyPool, wifi, KeyBusinessCenter}
           /\ keys(b.amenities.general) = {KeyPool, wifi, KeyBusinessCenter}
           /\ a.name # b.name

\* The response is a list of records that all parse.
clean(response) ==
    response.status = "ok" /\ \A i \in 1..Len(response.data) : response.data[i].valid

\* The hotels of the clean responses among the first n, in the order fetched.
RECURSIVE contributed(_, _)
contributed(responses, n) ==
    IF n = 0 THEN <<>>
    ELSE contributed(responses, n - 1)
         \o (IF clean(responses[n])
             THEN [i \in 1..Len(responses[n].data) |-> responses[n].data[i].hotel]
             ELSE <<>>)

\* C12: fetch never raises; a supplier whose request fails, or one of whose
\* records fails to parse, contributes no record at all, while the records of
\* every other supplier are merged into the catalog, and the run completes.
C12_FailureIsolatedPerSupplier ==
    fetchPc # "idle" =>
        /\ fetchRaised = {}
        /\ all_supplier_data = contributed(fetchResponses, Len(fetchResponses))
        /\ fetchPc # "raised"
        /\ fetchPc = "done" =>
              /\ DOMAIN hotels = {all_supplier_data[i].id : i \in 1..Len(all_supplier_data)}
              /\ \A id \in DOMAIN hotels :
                    folded[id] = SelectSeq(contributed(fetchResponses, NumSuppliers),
                                           LAMBDA hotel : hotel.id = id)

\* C12 witness: the first supplier's request failed, the second delivered a good
\* record and one that does not parse, the third delivered one good record; the
\* run is done and the catalog holds the third supplier's record alone.
C12_Witness ==
    /\ fetchPc = "done"
    /\ fetchResponses[1].status = "request_exception"
    /\ fetchResponses[2] = [status |-> "ok",
                            data |-> <<Dto(TRUE, Hotel("h1", 3)), Dto(FALSE, Hotel("h2", 1))>>]
    /\ fetchResponses[3] = [status |-> "ok", data |-> <<Dto(TRUE, Hotel("h1", 4))>>]
    /\ DOMAIN hotels = {"h1"}
    /\ hotels["h1"] = Hotel("h1", 4)

\* C13: normalize_amenity applied to its own result returns it unchanged, for
\* every text of lowercase letters, uppercase letters and spaces, and "WiFi",
\* "wifi" and "Wifi" all normalize to "wifi".
C13_NormalizeIsIdempotent ==
    /\ normTwice # None => normTwice = normOnce
    /\ (normOnce # None /\ normText \in {LabelWiFi, wifi, <<"W", "i", "f", "i">>})
          => normOnce = Some(wifi)

\* C13 witness: "iF W" was normalized to "i f w", and that again to itself.
C13_Witness ==
    /\ normText = <<"i", "F", " ", "W">>
    /\ normOnce = Some(<<"i", " ", "f", " ", "w">>)
    /\ normTwice = Some(<<"i", " ", "f", " ", "w">>)

====
